---- MODULE Spec2Model ----
(***************************************************************************)
(* A model of ruff-home (Home, a tiny web framework for Ruff): the route   *)
(* table, the per-request dispatch loop of Server._handleRequest, the      *)
(* result serializer, the error handler, the template cache of             *)
(* Server._render and the static file middleware Server.static.            *)
(*                                                                         *)
(* JavaScript strings are sequences of one-character strings, so that      *)
(* indexOf, substr, split, Path.join, Path.extname and the placeholder     *)
(* regular expression are computed character by character.                 *)
(*                                                                         *)
(* An intermediate result that is used more than once is passed as the     *)
(* argument of a local operator (LET F(x) == ... IN F(e)), so that it is   *)
(* computed once.                                                          *)
(***************************************************************************)
EXTENDS Integers, Sequences, FiniteSets, TLC

VARIABLES
    routes,         \* Server.routes: the route table, in registration order
    templateCache,  \* Server._templateCache: view name -> cache entry
    fs,             \* the filesystem: path -> [kind, data]
    reqs,           \* the requests in flight: slot -> request record
    prev            \* history: the previous finished request, as Finish recorded it

vars == <<routes, templateCache, fs, reqs, prev>>

(***************************************************************************)
(* Bounds of the model.                                                    *)
(***************************************************************************)
MaxRoutes == 2

(***************************************************************************)
(* Strings.                                                                *)
(***************************************************************************)
Str_root == <<"/">>
Str_foo == <<"/", "f", "o", "o">>
Str_fooSlash == <<"/", "f", "o", "o", "/">>
Str_fooBar == <<"/", "f", "o", "o", "/", "b", "a", "r">>
Str_other == <<"/", "x">>
Str_build == <<"/", "b", "u", "i", "l", "d">>
Str_html == <<".", "h", "t", "m", "l">>
Str_js == <<".", "j", "s">>
Str_gz == <<".", "g", "z">>
Str_index == <<"i", "n", "d", "e", "x">>
Str_indexHtml == <<"/">> \o Str_index \o Str_html
Str_2unknown == <<"/", "2", ".", "u", "n", "k", "n", "o", "w", "n">>
Str_3js == <<"/", "3">> \o Str_js
Str_sub == <<"/", "s", "u", "b">>
Str_widget == <<"/", "w", "i", "d", "g", "e", "t">>
Str_path == <<"p", "a", "t", "h">>
Str_user == <<"u", "s", "e", "r">>
Str_name == <<"n", "a", "m", "e">>
Str_Ann == <<"A", "n", "n">>
Str_Hello == <<"H", "e", "l", "l", "o", " ">>
Str_PageNotFound == <<"P", "a", "g", "e", " ", "N", "o", "t", " ", "F", "o", "u", "n", "d">>
Str_ServerError == <<"S", "e", "r", "v", "e", "r", " ", "E", "r", "r", "o", "r">>
Str_null == <<"n", "u", "l", "l">>
Str_views == <<"/", "v">>
Str_errorFolder == <<"e", "r", "r", "o", "r">>
Str_staticRoot == <<"/", "d">>

\* String.prototype.indexOf(prefix) === 0
StartsWith(s, prefix) ==
    /\ Len(prefix) <= Len(s)
    /\ SubSeq(s, 1, Len(prefix)) = prefix

\* String.prototype.substr(n)
Substr(s, n) == SubSeq(s, n + 1, Len(s))

\* /\/$/.test(s)
EndsWithSlash(s) == Len(s) > 0 /\ s[Len(s)] = "/"

\* Number.prototype.toString() for a natural number
RECURSIVE NatToString(_)
NatToString(n) ==
    IF n < 10 THEN <<(<<"0", "1", "2", "3", "4", "5", "6", "7", "8", "9">>)[n + 1]>>
    ELSE NatToString(n \div 10) \o NatToString(n % 10)

\* String.prototype.split(sep) for a one-character separator
RECURSIVE SplitFrom(_, _, _)
SplitFrom(s, sep, cur) ==
    IF s = <<>> THEN <<cur>>
    ELSE IF Head(s) = sep THEN <<cur>> \o SplitFrom(Tail(s), sep, <<>>)
    ELSE SplitFrom(Tail(s), sep, Append(cur, Head(s)))

Split(s, sep) == SplitFrom(s, sep, <<>>)

(***************************************************************************)
(* Path (posix): normalize, join, extname.                                 *)
(***************************************************************************)
\* normalizeString: resolves "." and ".." segments
RECURSIVE NormalizeSegments(_, _, _)
NormalizeSegments(segs, acc, allowAboveRoot) ==
    IF segs = <<>> THEN acc
    ELSE NormalizeSegments(
             Tail(segs),
             IF Head(segs) = <<>> \/ Head(segs) = <<".">> THEN acc
             ELSE IF Head(segs) = <<".", ".">>
                 THEN IF acc # <<>> /\ acc[Len(acc)] # <<".", ".">>
                          THEN SubSeq(acc, 1, Len(acc) - 1)
                      ELSE IF allowAboveRoot THEN Append(acc, Head(segs))
                      ELSE acc
             ELSE Append(acc, Head(segs)),
             allowAboveRoot)

RECURSIVE JoinSegments(_)
JoinSegments(segs) ==
    IF segs = <<>> THEN <<>>
    ELSE IF Len(segs) = 1 THEN Head(segs)
    ELSE Head(segs) \o <<"/">> \o JoinSegments(Tail(segs))

PathNormalize(p) ==
    IF p = <<>> THEN <<".">>
    ELSE LET isAbsolute == p[1] = "/"
             trailingSeparator == p[Len(p)] = "/"
             Assemble(body) ==
                 (IF isAbsolute THEN <<"/">> ELSE <<>>)
                 \o (IF body = <<>> /\ ~isAbsolute THEN <<".">> ELSE body)
                 \o (IF (body # <<>> \/ ~isAbsolute) /\ trailingSeparator THEN <<"/">> ELSE <<>>)
         IN  Assemble(JoinSegments(NormalizeSegments(Split(p, "/"), <<>>, ~isAbsolute)))

\* Path.join(a, b): the non-empty arguments joined by "/" and normalized
PathJoin(a, b) ==
    IF a = <<>> /\ b = <<>> THEN <<".">>
    ELSE IF a = <<>> THEN PathNormalize(b)
    ELSE IF b = <<>> THEN PathNormalize(a)
    ELSE PathNormalize(a \o <<"/">> \o b)

RECURSIVE StripTrailingSlashes(_)
StripTrailingSlashes(p) ==
    IF Len(p) > 1 /\ p[Len(p)] = "/" THEN StripTrailingSlashes(SubSeq(p, 1, Len(p) - 1)) ELSE p

\* the largest index of character c in s, 0 when there is none
RECURSIVE LastIndexOf(_, _)
LastIndexOf(s, c) ==
    IF s = <<>> THEN 0
    ELSE IF s[Len(s)] = c THEN Len(s)
    ELSE LastIndexOf(SubSeq(s, 1, Len(s) - 1), c)

PathBasename(p) ==
    LET After(q) == Substr(q, LastIndexOf(q, "/"))
    IN  After(StripTrailingSlashes(p))

\* Path.extname(p): from the last "." of the basename, "" when there is none or
\* when it is the first character of the basename
PathExtname(p) ==
    LET Ext(base, dot) ==
            IF dot <= 1 \/ base = <<".", ".">> THEN <<>> ELSE Substr(base, dot - 1)
        OfBase(base) == Ext(base, LastIndexOf(base, "."))
    IN  OfBase(PathBasename(p))

(***************************************************************************)
(* JavaScript values: what a handler returns and what a template is        *)
(* rendered with.  An object is its own properties in insertion order.     *)
(***************************************************************************)
V_undefined == [k |-> "undefined", s |-> <<>>, n |-> 0, props |-> <<>>]
V_null == [k |-> "null", s |-> <<>>, n |-> 0, props |-> <<>>]
V_str(chars) == [k |-> "string", s |-> chars, n |-> 0, props |-> <<>>]
V_num(num) == [k |-> "number", s |-> <<>>, n |-> num, props |-> <<>>]
V_obj(properties) == [k |-> "object", s |-> <<>>, n |-> 0, props |-> properties]
\* an instance of Response whose applyTo writes the given body and ends
V_response(body) == [k |-> "response", s |-> body, n |-> 0, props |-> <<>>]

\* !v
Falsy(v) ==
    \/ v.k \in {"undefined", "null"}
    \/ v.k = "string" /\ v.s = <<>>
    \/ v.k = "number" /\ v.n = 0

\* node[key] for a node that is neither null nor undefined
RECURSIVE LookupProp(_, _)
LookupProp(properties, key) ==
    IF properties = <<>> THEN V_undefined
    ELSE IF Head(properties)[1] = key THEN Head(properties)[2]
    ELSE LookupProp(Tail(properties), key)

GetProp(node, key) ==
    IF node.k = "object" THEN LookupProp(node.props, key) ELSE V_undefined

\* String(v), as String.prototype.replace applies it to a replacer's result
ToStr(v) ==
    CASE v.k = "string" -> v.s
      [] v.k = "number" -> NatToString(v.n)
      [] v.k = "null" -> Str_null
      [] v.k = "object" -> <<"[", "o", "b", "j", "e", "c", "t", " ", "O", "b", "j", "e", "c", "t", "]">>
      [] OTHER -> <<"u", "n", "d", "e", "f", "i", "n", "e", "d">>

\* JSON.stringify(v): undefined for undefined, else the text
RECURSIVE JsonText(_)
RECURSIVE JsonProps(_, _)
JsonProps(properties, first) ==
    IF properties = <<>> THEN <<>>
    ELSE IF Head(properties)[2].k = "undefined" THEN JsonProps(Tail(properties), first)
    ELSE (IF first THEN <<>> ELSE <<",">>) \o <<"\"">> \o Head(properties)[1] \o <<"\"", ":">>
             \o JsonText(Head(properties)[2]) \o JsonProps(Tail(properties), FALSE)

JsonText(v) ==
    CASE v.k = "string" -> <<"\"">> \o v.s \o <<"\"">>
      [] v.k = "number" -> NatToString(v.n)
      [] v.k = "null" -> Str_null
      [] v.k = "object" -> <<"{">> \o JsonProps(v.props, TRUE) \o <<"}">>
      [] OTHER -> <<>>

JSONStringify(v) == IF v.k = "undefined" THEN V_undefined ELSE V_str(JsonText(v))

(***************************************************************************)
(* Server._render: the placeholder substitution                            *)
(*   template.replace(/\{([$\w\d.-]+)\}/g, (text, expression) => ...)      *)
(***************************************************************************)
\* the character class [$\w\d.-]
TokenChars ==
    {"a", "b", "c", "d", "e", "f", "g", "h", "i", "j", "k", "l", "m", "n", "o", "p", "q",
     "r", "s", "t", "u", "v", "w", "x", "y", "z", "A", "B", "C", "D", "E", "F", "G", "H",
     "I", "J", "K", "L", "M", "N", "O", "P", "Q", "R", "S", "T", "U", "V", "W", "X", "Y",
     "Z", "0", "1", "2", "3", "4", "5", "6", "7", "8", "9", "_", "$", ".", "-"}

\* the longest prefix of s made of token characters
RECURSIVE TokenRun(_)
TokenRun(s) ==
    IF s # <<>> /\ Head(s) \in TokenChars THEN <<Head(s)>> \o TokenRun(Tail(s)) ELSE <<>>

Replaced(text) == [threw |-> FALSE, text |-> text]
Threw == [threw |-> TRUE, text |-> <<>>]

\* the replacer's loop: for (let key of keys) { node = node[key]; if (node === undefined) return text; }
\* reading a property of null raises a TypeError
RECURSIVE WalkKeys(_, _, _)
WalkKeys(node, keys, text) ==
    IF keys = <<>> THEN Replaced(ToStr(node))
    ELSE IF node.k \in {"null", "undefined"} THEN Threw
    ELSE LET Go(child) ==
                 IF child.k = "undefined" THEN Replaced(text)
                 ELSE WalkKeys(child, Tail(keys), text)
         IN  Go(GetProp(node, Head(keys)))

ReplaceToken(expression, data) ==
    WalkKeys(data, Split(expression, "."), <<"{">> \o expression \o <<"}">>)

\* the output so far followed by the rest of the output; an error raised by a
\* replacer call ends the replace
Concat(first, rest) ==
    IF first.threw \/ rest.threw THEN Threw ELSE Replaced(first.text \o rest.text)

RECURSIVE ReplaceAll(_, _)
ReplaceAll(template, data) ==
    IF template = <<>> THEN Replaced(<<>>)
    ELSE LET Scan(run) ==
                 IF /\ Head(template) = "{"
                    /\ run # <<>>
                    /\ Len(template) >= Len(run) + 2
                    /\ template[Len(run) + 2] = "}"
                     THEN Concat(ReplaceToken(run, data),
                                 ReplaceAll(Substr(template, Len(run) + 2), data))
                 ELSE Concat(Replaced(<<Head(template)>>), ReplaceAll(Tail(template), data))
         IN  Scan(TokenRun(Tail(template)))

\* data = data || Object.create(null); return template.replace(...)
Substitute(template, data) ==
    ReplaceAll(template, IF Falsy(data) THEN V_obj(<<>>) ELSE data)

(***************************************************************************)
(* The filesystem and the template cache.                                  *)
(***************************************************************************)
NoFile == [kind |-> "none", data |-> <<>>]
File(bytes) == [kind |-> "file", data |-> bytes]
Directory == [kind |-> "dir", data |-> <<>>]

FsEntry(fsys, p) == IF p \in DOMAIN fsys THEN fsys[p] ELSE NoFile

\* FS.statSync(p): a path with a trailing slash names a directory only
FsStat(fsys, p) ==
    LET Of(entry) ==
            IF EndsWithSlash(p) /\ Len(p) > 1 /\ entry.kind = "file" THEN NoFile ELSE entry
    IN  Of(FsEntry(fsys, StripTrailingSlashes(p)))

\* CacheHas that never finds an entry: every render reads the file again
CacheHas_Never(cache, view) == FALSE

\* hop.call(this._templateCache, view) and this._templateCache[view]
CacheHas(cache, view) == \E e \in cache : e.view = view
CacheGet(cache, view) == (CHOOSE e \in cache : e.view = view).template
CachePut(cache, view, template) ==
    {e \in cache : e.view # view} \cup {[view |-> view, template |-> template]}

\* view names: if (view === '/') view += 'index'
ViewName(view) == IF view = <<"/">> THEN view \o Str_index ELSE view

\* Path.join(this.views, view + '.html')
ViewPath(view) == PathJoin(Str_views, view \o Str_html)

RenderResult(kind, html, cache, probed) ==
    [kind |-> kind, html |-> html, cache |-> cache, probed |-> probed]

\* the substitution's result as _render's
Rendered(substituted, cache, probed) ==
    IF substituted.threw THEN RenderResult("threw", <<>>, cache, probed)
    ELSE RenderResult("html", substituted.text, cache, probed)

\* the branch of _render that finds the view in the cache
RenderCached(cache, template, data) ==
    IF Falsy(template) THEN RenderResult("undefined", <<>>, cache, FALSE)
    ELSE Rendered(Substitute(template.s, data), cache, FALSE)

\* the branch of _render that reads the view from the filesystem
RenderLoaded(cache, view, entry, data) ==
    IF entry.kind = "file"
        THEN Rendered(Substitute(entry.data, data), CachePut(cache, view, V_str(entry.data)), TRUE)
    ELSE IF entry.kind = "dir"
        THEN RenderResult("threw", <<>>, cache, TRUE)
    ELSE RenderResult("undefined", <<>>, CachePut(cache, view, V_undefined), TRUE)

\* Server._render(view, data): the result is undefined, the rendered html, or a
\* raised error; cache is the template cache afterwards, probed whether the
\* filesystem was read
Render(cache, fsys, viewArg, data) ==
    IF CacheHas(cache, ViewName(viewArg))
        THEN RenderCached(cache, CacheGet(cache, ViewName(viewArg)), data)
    ELSE RenderLoaded(cache, ViewName(viewArg), FsStat(fsys, ViewPath(ViewName(viewArg))), data)

(***************************************************************************)
(* The response (http.ServerResponse).                                     *)
(***************************************************************************)
NewResponse ==
    [headerSent |-> FALSE, ended |-> FALSE, statusCode |-> 200,
     contentType |-> "", contentEncoding |-> "", contentLength |-> <<>>,
     body |-> <<>>, source |-> <<>>, writer |-> "", ends |-> 0]

\* res.write(chunk) by the named writer
ResWrite(res, chunk, who) ==
    [res EXCEPT !.headerSent = TRUE, !.body = @ \o chunk, !.writer = who]

\* res.end()
ResEnd(res) == [res EXCEPT !.headerSent = TRUE, !.ended = TRUE, !.ends = @ + 1]

\* res.setHeader('Content-Type', type); res.write(body); res.end()
ResSend(res, type, body, who) ==
    ResEnd(ResWrite([res EXCEPT !.contentType = type], body, who))

(***************************************************************************)
(* Errors: ExpectedError, NotFoundError, and any other thrown value.       *)
(***************************************************************************)
ExpectedError(message, statusCode) ==
    [kind |-> "Expected", message |-> message, statusCode |-> statusCode, path |-> <<>>]
\* NotFoundError without the 404 passed to super(): the default status code
NotFoundError_DefaultStatus(message, path) ==
    [kind |-> "NotFound", message |-> message, statusCode |-> 500, path |-> path]
NotFoundError(message, path) ==
    [kind |-> "NotFound", message |-> message, statusCode |-> 404, path |-> path]
UntypedError(message) ==
    [kind |-> "Untyped", message |-> message, statusCode |-> 0, path |-> <<>>]
NoError == [kind |-> "", message |-> <<>>, statusCode |-> 0, path |-> <<>>]

\* the error object as template data
ErrorData(error) ==
    V_obj(<< <<<<"m", "e", "s", "s", "a", "g", "e">>, V_str(error.message)>>,
             <<<<"s", "t", "a", "t", "u", "s", "C", "o", "d", "e">>, V_num(error.statusCode)>> >>
          \o (IF error.kind = "NotFound" THEN << <<Str_path, V_str(error.path)>> >> ELSE <<>>))

\* `${this.errorViewsFolder}/${statusCode}`
ErrorView(statusCode) == Str_errorFolder \o <<"/">> \o NatToString(statusCode)

Handled(res, cache, threw, probed, logged) ==
    [res |-> res, cache |-> cache, threw |-> threw, probed |-> probed, logged |-> logged]

\* _handleResult once the view is rendered (r) and the value serialized (json)
SerializeResult(res, r, json) ==
    CASE r.kind = "threw" -> Handled(res, r.cache, TRUE, r.probed, FALSE)
      [] r.kind = "html" ->
             Handled(ResSend(res, "text/html", r.html, "result"), r.cache, FALSE, r.probed, FALSE)
      [] OTHER ->
             Handled(IF Falsy(json) THEN ResEnd(res)
                     ELSE ResSend(res, "application/json", json.s, "result"),
                     r.cache, FALSE, r.probed, FALSE)

\* HandleResult without the test of res._headerSent
HandleResult_Unguarded(cache, fsys, path, res, result) ==
    IF result.k = "response"
        THEN Handled(ResSend(res, "custom", result.s, "applyTo"), cache, FALSE, FALSE, FALSE)
    ELSE SerializeResult(res, Render(cache, fsys, path, result), JSONStringify(result))

\* Server._handleResult(path, res, result)
HandleResult(cache, fsys, path, res, result) ==
    IF res.headerSent THEN Handled(res, cache, FALSE, FALSE, FALSE)
    ELSE IF result.k = "response"
        THEN Handled(ResSend(res, "custom", result.s, "applyTo"), cache, FALSE, FALSE, FALSE)
    ELSE SerializeResult(res, Render(cache, fsys, path, result), JSONStringify(result))

\* _handleError for an ExpectedError once its error view is rendered (r):
\* html = this._render(...) || error.message
SerializeError(res, r, error) ==
    IF r.kind = "threw" THEN Handled(res, r.cache, TRUE, r.probed, FALSE)
    ELSE Handled(ResSend([res EXCEPT !.statusCode = error.statusCode], "text/html",
                         IF r.kind = "html" /\ r.html # <<>> THEN r.html ELSE error.message,
                         "error"),
                 r.cache, FALSE, r.probed, TRUE)

\* HandleError that answers an untyped failure with the failure's own message
HandleError_LeakMessage(cache, fsys, path, res, error) ==
    IF res.headerSent THEN Handled(res, cache, FALSE, FALSE, FALSE)
    ELSE IF error.kind \in {"Expected", "NotFound"}
        THEN SerializeError(res, Render(cache, fsys, ErrorView(error.statusCode), ErrorData(error)),
                            error)
    ELSE Handled(ResSend([res EXCEPT !.statusCode = 500], "text/html", error.message, "error"),
                 cache, FALSE, FALSE, TRUE)

\* Server._handleError(path, res, error); logged is whether console.error ran
HandleError(cache, fsys, path, res, error) ==
    IF res.headerSent THEN Handled(res, cache, FALSE, FALSE, FALSE)
    ELSE IF error.kind \in {"Expected", "NotFound"}
        THEN SerializeError(res, Render(cache, fsys, ErrorView(error.statusCode), ErrorData(error)),
                            error)
    ELSE Handled(ResSend([res EXCEPT !.statusCode = 500], "text/html", Str_ServerError, "error"),
                 cache, FALSE, FALSE, TRUE)

(***************************************************************************)
(* The route table: Server.add, use, get, post.                            *)
(***************************************************************************)
UserHandler == [type |-> "user", root |-> <<>>, defaultPath |-> <<>>]

\* NormalizeRoute without the case of the root pattern: '/' loses its slash
NormalizeRoute_NoRootCase(options) ==
    IF EndsWithSlash(options.path)
        THEN [options EXCEPT !.path = SubSeq(options.path, 1, Len(options.path) - 1),
                             !.pathWithEndingSlash = options.path]
    ELSE [options EXCEPT !.pathWithEndingSlash = options.path \o <<"/">>]

\* NormalizeRoute that appends '/' to every pattern, the root pattern included
NormalizeRoute_AppendSlash(options) ==
    [options EXCEPT !.pathWithEndingSlash = options.path \o <<"/">>]

\* Server.add(options): the route as stored
NormalizeRoute(options) ==
    IF options.path = <<"/">>
        THEN [options EXCEPT !.pathWithEndingSlash = options.path]
    ELSE IF EndsWithSlash(options.path)
        THEN [options EXCEPT !.path = SubSeq(options.path, 1, Len(options.path) - 1),
                             !.pathWithEndingSlash = options.path]
    ELSE [options EXCEPT !.pathWithEndingSlash = options.path \o <<"/">>]

\* the options object add() receives; pattern keeps the path as passed (history)
RouteOptions(method, path, extendable, middleware) ==
    [method |-> method, path |-> path, extendable |-> extendable,
     middleware |-> middleware, pathWithEndingSlash |-> <<>>, pattern |-> path]

\* this.routes.push(route)
AddRoute(table, options) == Append(table, NormalizeRoute(options))


\* RouteMatches with the prefix test made against route.path, without the slash
RouteMatches_NoSlash(route, method, pathname) ==
    ~ (\/ (route.method # "" /\ route.method # method)
       \/ (/\ pathname # route.path
           /\ (~route.extendable \/ ~StartsWith(pathname, route.path))))

\* the test of next(): the route is tried for this request
RouteMatches(route, method, pathname) ==
    ~ (\/ (route.method # "" /\ route.method # method)
       \/ (/\ pathname # route.path
           /\ (~route.extendable \/ ~StartsWith(pathname, route.pathWithEndingSlash))))

\* next() calling itself over the routes that do not match: the position of the
\* first route after index that is tried, Len(table) + 1 when none is left
RECURSIVE NextRoute(_, _, _, _)
NextRoute(table, index, method, pathname) ==
    IF index + 1 > Len(table) THEN index + 1
    ELSE IF RouteMatches(table[index + 1], method, pathname) THEN index + 1
    ELSE NextRoute(table, index + 1, method, pathname)

\* HandlerPath that leaves the mount prefix in place: req.path = pathname
HandlerPath_Unstripped(route, pathname) == pathname

\* HandlerPath that removes the prefix path, its ending slash included
HandlerPath_PrefixPath(route, pathname) ==
    IF route.extendable /\ route.path # <<"/">>
        THEN Substr(pathname, Len(route.pathWithEndingSlash))
    ELSE pathname

\* req.path as next() sets it before it invokes the route's middleware
HandlerPath(route, pathname) ==
    IF route.extendable /\ route.path # <<"/">>
        THEN Substr(pathname, Len(route.path))
    ELSE pathname

(***************************************************************************)
(* Server.static(path, defaultPath): the static file middleware.           *)
(***************************************************************************)
\* mime.json, the extension -> MIME type table the module loads
MimeMap ==
    (Str_html :> "text/html") @@ (Str_js :> "application/javascript")

\* hop.call(mimeMap, extname) ? mimeMap[extname] : 'application/octet-stream'
MimeType(extname) ==
    IF extname \in DOMAIN MimeMap THEN MimeMap[extname] ELSE "application/octet-stream"

StaticHandler(root, defaultPath) ==
    [type |-> "static", root |-> root, defaultPath |-> defaultPath]

\* if (defaultPath && defaultPath[0] !== '/') defaultPath = '/' + defaultPath
StaticDefaultPath(defaultPath) ==
    IF defaultPath # <<>> /\ defaultPath[1] # "/" THEN <<"/">> \o defaultPath ELSE defaultPath

\* urlPath = req.path === '/' ? defaultPath : req.path
StaticUrlPath(middleware, reqPath) ==
    IF reqPath = <<"/">> THEN StaticDefaultPath(middleware.defaultPath) ELSE reqPath

\* filePath = Path.join(path, urlPath)
StaticFilePath(middleware, reqPath) ==
    PathJoin(middleware.root, StaticUrlPath(middleware, reqPath))

\* StaticCandidates with the plain file tried before its gzip variant
StaticCandidates_PlainFirst(filePath) ==
    << [path |-> filePath, gzipped |-> FALSE],
       [path |-> filePath \o Str_gz, gzipped |-> TRUE] >>

\* candidates: the gzip variant first, then the file itself
StaticCandidates(filePath) ==
    << [path |-> filePath \o Str_gz, gzipped |-> TRUE],
       [path |-> filePath, gzipped |-> FALSE] >>

NoTarget == [found |-> FALSE, path |-> <<>>, gzipped |-> FALSE, size |-> 0]

\* MergeStats without the isFile() test: whatever exists is accepted
MergeStats_AnyEntry(item, stats) ==
    IF stats.kind # "none"
        THEN [found |-> TRUE, path |-> item.path, gzipped |-> item.gzipped,
              size |-> Len(stats.data)]
    ELSE NoTarget

\* the filter of findAndMerge: statSync(candidate.path).isFile() ? {size} : undefined,
\* merged into the candidate
MergeStats(item, stats) ==
    IF stats.kind = "file"
        THEN [found |-> TRUE, path |-> item.path, gzipped |-> item.gzipped,
              size |-> Len(stats.data)]
    ELSE NoTarget

\* findAndMerge(candidates, filter): the first candidate the filter accepts
RECURSIVE FindAndMerge(_, _)
FindAndMerge(items, fsys) ==
    IF items = <<>> THEN NoTarget
    ELSE LET Pick(merged) == IF merged.found THEN merged ELSE FindAndMerge(Tail(items), fsys)
         IN  Pick(MergeStats(Head(items), FsStat(fsys, Head(items).path)))

\* StaticHeaders with the content type looked up by the extension of the chosen
\* candidate
StaticHeaders_TargetExt(res, target, filePath) ==
    [res EXCEPT !.contentEncoding = IF target.gzipped THEN "gzip" ELSE @,
                !.contentLength = NatToString(target.size),
                !.contentType = MimeType(PathExtname(target.path))]

\* the headers the middleware sets once a target is chosen
StaticHeaders(res, target, filePath) ==
    [res EXCEPT !.contentEncoding = IF target.gzipped THEN "gzip" ELSE @,
                !.contentLength = NatToString(target.size),
                !.contentType = MimeType(PathExtname(filePath))]

(***************************************************************************)
(* Handler outcomes and requests.                                          *)
(***************************************************************************)
\* what one invocation of a user middleware does: it returns the request (pass),
\* returns a value, or throws; directly, or through the promise it returns;
\* wrote: it wrote and ended the response itself first
Outcome(kind, async, val, err, wrote) ==
    [kind |-> kind, async |-> async, val |-> val, err |-> err, wrote |-> wrote]

NoOutcome == Outcome("", FALSE, V_undefined, NoError, FALSE)

\* IsSentinel testing the outcome for truthiness instead of identity with req
IsSentinel_Truthy(o) == o.kind = "pass" \/ (o.kind = "value" /\ ~Falsy(o.val))

\* IsSentinel that knows the request only when it is returned directly
IsSentinel_SyncOnly(o) == o.kind = "pass" /\ ~o.async

\* resultResolvable === req, result === req
IsSentinel(o) == o.kind = "pass"

IdleRequest ==
    [pc |-> "idle", method |-> "", pathname |-> <<>>, index |-> 0, path |-> <<>>,
     pending |-> NoOutcome, res |-> NewResponse, invoked |-> <<>>, outcomes |-> <<>>,
     exhausted |-> FALSE, error |-> NoError, errors |-> 0, logs |-> 0, probed |-> FALSE,
     result |-> V_undefined, resolved |-> FALSE,
     mount |-> <<>>, filePath |-> <<>>, target |-> NoTarget,
     seenGz |-> NoFile, seenPlain |-> NoFile]

\* no request is inside a synchronous run of next()
NoneRunning == \A i \in DOMAIN reqs : reqs[i].pc # "next"

\* an error raised by the serializer or the error handler is caught by nobody
FinalPc(threw) == IF threw THEN "escaped" ELSE "done"

\* the request after this._handleError(pathname, res, error) did h
AfterError(r, h, error) ==
    [r EXCEPT !.res = h.res, !.pc = FinalPc(h.threw), !.error = error,
              !.errors = @ + 1, !.logs = IF h.logged THEN @ + 1 ELSE @,
              !.probed = @ \/ h.probed, !.pending = NoOutcome]

\* the request after this._handleResult(pathname, res, result) did h
AfterResult(r, h, result) ==
    [r EXCEPT !.res = h.res, !.pc = FinalPc(h.threw), !.result = result,
              !.resolved = TRUE, !.probed = @ \/ h.probed, !.pending = NoOutcome]

\* the request as next() invokes route j: index++, req.path; invoked, outcomes
\* and mount record which routes were invoked, what each handler's outcome was
\* and the path the last invoked route was registered with (history)
Invoked(r, j, route, kind) ==
    [r EXCEPT !.index = j, !.path = HandlerPath(route, r.pathname),
              !.invoked = Append(@, j), !.outcomes = Append(@, kind),
              !.mount = route.pattern]

(***************************************************************************)
(* Actions.                                                                *)
(***************************************************************************)
\* server.use(path, middleware): any method (method "" is undefined), extendable
Use(path, middleware) ==
    /\ NoneRunning
    /\ Len(routes) < MaxRoutes
    /\ routes' = AddRoute(routes, RouteOptions("", path, TRUE, middleware))
    /\ UNCHANGED <<templateCache, fs, reqs, prev>>

\* server.get(path, middleware): GET, the exact path
Get(path, middleware) ==
    /\ NoneRunning
    /\ Len(routes) < MaxRoutes
    /\ routes' = AddRoute(routes, RouteOptions("GET", path, FALSE, middleware))
    /\ UNCHANGED <<templateCache, fs, reqs, prev>>

\* server.post(path, middleware): POST, the exact path
Post(path, middleware) ==
    /\ NoneRunning
    /\ Len(routes) < MaxRoutes
    /\ routes' = AddRoute(routes, RouteOptions("POST", path, FALSE, middleware))
    /\ UNCHANGED <<templateCache, fs, reqs, prev>>

\* the 'request' event: _handleRequest up to its call of next()
Arrive(i, method, pathname) ==
    /\ NoneRunning
    /\ reqs[i].pc = "idle"
    /\ reqs' = [reqs EXCEPT ![i] = [IdleRequest EXCEPT !.pc = "next", !.method = method,
                                                       !.pathname = pathname]]
    /\ UNCHANGED <<routes, templateCache, fs, prev>>

\* next() finds no route left: NotFoundError
Exhaust(i) ==
    /\ reqs[i].pc = "next"
    /\ \E j \in {NextRoute(routes, reqs[i].index, reqs[i].method, reqs[i].pathname)} :
           /\ j > Len(routes)
           /\ \E error \in {NotFoundError(Str_PageNotFound, reqs[i].pathname)} :
              \E h \in {HandleError(templateCache, fs, reqs[i].pathname, reqs[i].res, error)} :
                  /\ reqs' = [reqs EXCEPT ![i] =
                         AfterError([@ EXCEPT !.index = j, !.exhausted = TRUE], h, error)]
                  /\ templateCache' = h.cache
    /\ UNCHANGED <<routes, fs, prev>>

\* the handler's own write to the response, when it makes one
HandlerWrite(res, o) == IF o.wrote THEN ResEnd(ResWrite(res, <<"h">>, "handler")) ELSE res

\* next() reaches a route that matches and invokes its (user) middleware, whose
\* outcome is o
InvokeUser(i, o) ==
    /\ reqs[i].pc = "next"
    /\ \E j \in {NextRoute(routes, reqs[i].index, reqs[i].method, reqs[i].pathname)} :
           /\ j <= Len(routes)
           /\ routes[j].middleware.type = "user"
           /\ \E r1 \in {[Invoked(reqs[i], j, routes[j], o.kind)
                             EXCEPT !.res = HandlerWrite(@, o)]} :
                  IF o.kind = "throw" /\ ~o.async
                      THEN \E h \in {HandleError(templateCache, fs, r1.pathname, r1.res, o.err)} :
                               /\ reqs' = [reqs EXCEPT ![i] = AfterError(r1, h, o.err)]
                               /\ templateCache' = h.cache
                  ELSE IF IsSentinel(o) /\ ~o.async
                      THEN /\ reqs' = [reqs EXCEPT ![i] = r1]
                           /\ UNCHANGED templateCache
                  ELSE /\ reqs' = [reqs EXCEPT ![i] = [r1 EXCEPT !.pc = "await", !.pending = o]]
                       /\ UNCHANGED templateCache
    /\ UNCHANGED <<routes, fs, prev>>

\* the then-callbacks of Promise.resolve(resultResolvable)
Settle(i) ==
    /\ NoneRunning
    /\ reqs[i].pc = "await"
    /\ \E r \in {reqs[i]} :
          CASE IsSentinel(r.pending) ->
                   /\ reqs' = [reqs EXCEPT ![i] = [r EXCEPT !.pc = "next",
                                                            !.pending = NoOutcome]]
                   /\ UNCHANGED templateCache
            [] r.pending.kind = "value" ->
                   \E h \in {HandleResult(templateCache, fs, r.pathname, r.res, r.pending.val)} :
                       /\ reqs' = [reqs EXCEPT ![i] = AfterResult(r, h, r.pending.val)]
                       /\ templateCache' = h.cache
            [] OTHER ->
                   \E h \in {HandleError(templateCache, fs, r.pathname, r.res, r.pending.err)} :
                       /\ reqs' = [reqs EXCEPT ![i] = AfterError(r, h, r.pending.err)]
                       /\ templateCache' = h.cache
    /\ UNCHANGED <<routes, fs, prev>>

\* the promise of a static middleware that found no file: resolve(req)
Declined == Outcome("pass", TRUE, V_undefined, NoError, FALSE)
\* ... whose stream ended: resolve()
Streamed == Outcome("value", TRUE, V_undefined, NoError, FALSE)
\* ... whose stream failed: reject(error)
StreamFailed == Outcome("throw", TRUE, V_undefined, UntypedError(<<"E", "N", "O", "E", "N", "T">>), FALSE)

\* the request after the promise executor of the static middleware ran
StaticInvoked(r1, fsys, filePath, target) ==
    [r1 EXCEPT !.filePath = filePath, !.target = target,
               !.seenGz = FsStat(fsys, filePath \o Str_gz),
               !.seenPlain = FsStat(fsys, filePath),
               !.pc = IF target.found THEN "streaming" ELSE "await",
               !.pending = IF target.found THEN NoOutcome ELSE Declined,
               !.res = IF target.found THEN StaticHeaders(@, target, filePath) ELSE @]

\* next() reaches a route that matches and whose middleware is Server.static(...):
\* the promise executor stats the candidates, and declines or sets the headers and
\* opens the stream
InvokeStatic(i) ==
    /\ reqs[i].pc = "next"
    /\ \E j \in {NextRoute(routes, reqs[i].index, reqs[i].method, reqs[i].pathname)} :
           /\ j <= Len(routes)
           /\ routes[j].middleware.type = "static"
           /\ \E filePath \in {StaticFilePath(routes[j].middleware,
                                                HandlerPath(routes[j], reqs[i].pathname))} :
              \E target \in {FindAndMerge(StaticCandidates(filePath), fs)} :
                  reqs' = [reqs EXCEPT ![i] =
                      StaticInvoked(Invoked(@, j, routes[j],
                                            IF target.found THEN "value" ELSE "pass"),
                                    fs, filePath, target)]
    /\ UNCHANGED <<routes, templateCache, fs, prev>>

\* FS.createReadStream(target.path).pipe(res) runs to its end; the promise is
\* resolved with no value
StreamEnd(i) ==
    /\ NoneRunning
    /\ reqs[i].pc = "streaming"
    /\ \E entry \in {FsStat(fs, reqs[i].target.path)} :
           /\ entry.kind = "file"
           /\ reqs' = [reqs EXCEPT ![i] =
                  [@ EXCEPT !.pc = "await",
                            !.res = [ResEnd(ResWrite(@, entry.data, "static"))
                                        EXCEPT !.source = reqs[i].target.path],
                            !.pending = Streamed]]
    /\ UNCHANGED <<routes, templateCache, fs, prev>>

\* the stream cannot open the file (it is gone since the stat): stream.on('error', reject)
StreamError(i) ==
    /\ NoneRunning
    /\ reqs[i].pc = "streaming"
    /\ FsStat(fs, reqs[i].target.path).kind # "file"
    /\ reqs' = [reqs EXCEPT ![i] = [@ EXCEPT !.pc = "await", !.pending = StreamFailed]]
    /\ UNCHANGED <<routes, templateCache, fs, prev>>

\* what is kept of a finished request
Summary(r) ==
    [pc |-> r.pc, method |-> r.method, pathname |-> r.pathname, path |-> r.path,
     result |-> r.result, resolved |-> r.resolved, res |-> r.res, probed |-> r.probed,
     mount |-> r.mount, filePath |-> r.filePath, target |-> r.target,
     seenGz |-> r.seenGz, seenPlain |-> r.seenPlain]

NoPrev == Summary(IdleRequest)

\* the connection of a finished request closes; its slot takes the next request
Finish(i) ==
    /\ NoneRunning
    /\ reqs[i].pc \in {"done", "escaped"}
    /\ prev' = Summary(reqs[i])
    /\ reqs' = [reqs EXCEPT ![i] = IdleRequest]
    /\ UNCHANGED <<routes, templateCache, fs>>

\* the environment removes or rewrites a file
RemoveFile(p) ==
    /\ NoneRunning
    /\ FsEntry(fs, p).kind = "file"
    /\ fs' = [fs EXCEPT ![p] = NoFile]
    /\ UNCHANGED <<routes, templateCache, reqs, prev>>

WriteFile(p, bytes) ==
    /\ NoneRunning
    /\ p \in DOMAIN fs
    /\ fs[p] # File(bytes)
    /\ fs[p].kind # "dir"
    /\ fs' = [fs EXCEPT ![p] = File(bytes)]
    /\ UNCHANGED <<routes, templateCache, reqs, prev>>

(***************************************************************************)
(* The dispatcher: any route table built with use/get/post, one request,   *)
(* user middleware with every outcome.                                     *)
(***************************************************************************)
Methods == {"GET", "POST", "PUT"}
CorePatterns == {Str_root, Str_foo, Str_fooSlash}
CorePaths ==
    {Str_root, Str_foo, Str_fooSlash, Str_fooBar, Str_foo \o <<"b", "a", "r">>, Str_other}

Val_info == V_obj(<< <<<<"s", "n">>, V_str(<<"X", "1">>)>>, <<<<"t", "i", "m", "e">>, V_num(123)>> >>)
\* what a handler throws: an ExpectedError with status 403, or any other value
CoreErrors ==
    {ExpectedError(<<"F", "o", "r", "b", "i", "d", "d", "e", "n">>, 403),
     UntypedError(<<"b", "o", "o", "m">>)}

CoreOutcomes ==
    {Outcome("pass", a, V_undefined, NoError, FALSE) : a \in BOOLEAN}
    \cup {Outcome("value", a, v, NoError, w) :
              a \in BOOLEAN, v \in {Val_info, V_undefined}, w \in BOOLEAN}
    \cup {Outcome("value", FALSE, V_response(<<"r">>), NoError, FALSE)}
    \cup {Outcome("throw", a, V_undefined, e, w) :
              a \in BOOLEAN, e \in CoreErrors, w \in BOOLEAN}

Path_view404 == ViewPath(ErrorView(404))
Tpl_404 == <<"4", "0", "4", " ", "{">> \o Str_path \o <<"}">>


Init ==
    /\ routes = <<>>
    /\ templateCache = {}
    /\ fs \in [{Path_view404} -> {NoFile, File(Tpl_404), File(<<>>)}]
    /\ reqs = [i \in {1} |-> IdleRequest]
    /\ prev = NoPrev

Next ==
    \/ \E p \in CorePatterns : Use(p, UserHandler)
    \/ \E p \in CorePatterns : Get(p, UserHandler)
    \/ \E p \in CorePatterns : Post(p, UserHandler)
    \/ \E i \in DOMAIN reqs, m \in Methods, p \in CorePaths : Arrive(i, m, p)
    \/ \E i \in DOMAIN reqs : Exhaust(i)
    \/ \E i \in DOMAIN reqs, o \in CoreOutcomes : InvokeUser(i, o)
    \/ \E i \in DOMAIN reqs : Settle(i)

Spec == Init /\ [][Next]_vars

(***************************************************************************)
(* Properties of the dispatcher.                                           *)
(***************************************************************************)
\* route j of the table has been looked at by the next() of request r
Considered(r, j) == j < r.index \/ (j = r.index /\ ~r.exhausted)

\* C1: handlers are invoked in strictly increasing registration index; every
\* route that matches and comes before an invoked route was invoked before it;
\* and a handler is followed by another one only if its own outcome, returned
\* directly or through its promise, was the request itself (the sentinel).
C1_RegistrationOrder ==
    \A i \in DOMAIN reqs :
        \A k \in 1..Len(reqs[i].invoked) :
            /\ reqs[i].invoked[k] \in 1..Len(routes)
            /\ \A j \in 1..(reqs[i].invoked[k] - 1) :
                   RouteMatches(routes[j], reqs[i].method, reqs[i].pathname)
                       => \E k2 \in 1..(k - 1) : reqs[i].invoked[k2] = j
            /\ k < Len(reqs[i].invoked) =>
                   /\ reqs[i].invoked[k] < reqs[i].invoked[k + 1]
                   /\ reqs[i].outcomes[k] = "pass"

\* two routes that both match were invoked, the second after the first one's
\* promise resolved to the request
C1_Witness ==
    \E i \in DOMAIN reqs :
        /\ reqs[i].invoked = <<1, 2>>
        /\ reqs[i].outcomes[1] = "pass"
        /\ reqs[i].pc = "await"

\* the pattern a route was registered with, without its trailing slash
PatternBase(route) ==
    IF EndsWithSlash(route.pattern)
        THEN SubSeq(route.pattern, 1, Len(route.pattern) - 1)
    ELSE route.pattern

\* C2, stated on the pattern as registered: use(pattern) is a candidate for the
\* pattern without its trailing slash and for every path that continues it with
\* "/", whatever the method; get(pattern) and post(pattern) only for their own
\* method and exactly that path ("/" for the root pattern).
ExpectedCandidate(route, method, pathname) ==
    /\ route.method = "" \/ route.method = method
    /\ IF route.extendable
           THEN \/ pathname = PatternBase(route)
                \/ StartsWith(pathname, PatternBase(route) \o <<"/">>)
       ELSE \/ pathname = PatternBase(route)
            \/ (route.pattern = <<"/">> /\ pathname = <<"/">>)

\* C2: of the routes next() has looked at for a request, those whose handler was
\* invoked are exactly the candidates.
C2_CandidateRoutes ==
    \A i \in DOMAIN reqs :
        \A j \in 1..Len(routes) :
            Considered(reqs[i], j) =>
                ((\E k \in 1..Len(reqs[i].invoked) : reqs[i].invoked[k] = j)
                    <=> ExpectedCandidate(routes[j], reqs[i].method, reqs[i].pathname))

\* a request for /foo/bar went past get('/foo') and reached use('/foo/')
C2_Witness ==
    \E i \in DOMAIN reqs :
        /\ Len(routes) = 2
        /\ routes[1].method = "GET" /\ routes[1].pattern = Str_foo
        /\ routes[2].method = "" /\ routes[2].pattern = Str_fooSlash
        /\ reqs[i].pathname = Str_fooBar
        /\ reqs[i].invoked = <<2>>

\* the text of the error view of 404 rendered for a path
Expected404Body(fsys, pathname) ==
    IF FsEntry(fsys, Path_view404) = File(Tpl_404)
        THEN <<"4", "0", "4", " ">> \o pathname
    ELSE Str_PageNotFound

\* C3: a request whose routes are exhausted ends with 404, the NotFound error
\* carrying the requested path, and a response that depends on the path alone
\* and not on how many handlers passed (a handler that passes has left the
\* response alone).
C3_ExhaustedIsNotFound ==
    \A i \in DOMAIN reqs :
        reqs[i].exhausted =>
            /\ reqs[i].pc = "done"
            /\ reqs[i].error.kind = "NotFound"
            /\ reqs[i].error.path = reqs[i].pathname
            /\ reqs[i].res.statusCode = 404
            /\ reqs[i].res.contentType = "text/html"
            /\ reqs[i].res.body = Expected404Body(fs, reqs[i].pathname)
            /\ reqs[i].res.ended /\ reqs[i].res.ends = 1
            /\ reqs[i].res.contentEncoding = "" /\ reqs[i].res.contentLength = <<>>

\* every route matched and every handler, the last registered one included,
\* returned the sentinel
C3_Witness ==
    \E i \in DOMAIN reqs :
        /\ reqs[i].exhausted
        /\ Len(routes) = 2
        /\ reqs[i].invoked = <<1, 2>>
        /\ reqs[i].outcomes = <<"pass", "pass">>

\* no route matched at all
C3_WitnessNoMatch ==
    \E i \in DOMAIN reqs :
        /\ reqs[i].exhausted
        /\ Len(routes) = 2
        /\ reqs[i].invoked = <<>>

(***************************************************************************)
(* Static files: Server.static(D) mounted with use(), a catch-all user     *)
(* route, one request, and a filesystem from which the gzip variants can   *)
(* be removed.                                                             *)
(***************************************************************************)
Path_js == PathJoin(Str_staticRoot, Str_3js)
Path_jsGz == Path_js \o Str_gz
Path_unknown == PathJoin(Str_staticRoot, Str_2unknown)
Path_unknownGz == Path_unknown \o Str_gz
Path_indexHtml == PathJoin(Str_staticRoot, Str_indexHtml)

\* file contents: a file and its gzip variant differ in bytes and in size
Bytes_plain == <<"p", "l", "a", "i", "n">>
Bytes_gz == <<"g", "z">>
Bytes_index == <<"<", "h", "1", ">", "i", "n", "d", "e", "x", "<", "/", "h", "1", ">">>

\* the directory D: 3.js and 3.js.gz are each absent, a file or a directory;
\* 2.unknown is a file, with or without a gzip variant; index.html is a file and
\* sub a directory
StaticFs(js, jsGz, unknownGz) ==
    (Str_staticRoot :> Directory) @@ (PathJoin(Str_staticRoot, Str_sub) :> Directory)
    @@ (Path_indexHtml :> File(Bytes_index)) @@ (Path_unknown :> File(Bytes_plain))
    @@ (Path_js :> js) @@ (Path_jsGz :> jsGz) @@ (Path_unknownGz :> unknownGz)

StaticFsSet ==
    {StaticFs(js, jsGz, unknownGz) :
         js \in {NoFile, File(Bytes_plain), Directory},
         jsGz \in {NoFile, File(Bytes_gz), Directory},
         unknownGz \in {NoFile, File(Bytes_gz)}}

\* the mounts: use('/', ...) and use('/build', ...) of Server.static(D) and of
\* Server.static(D, 'index.html')
StaticMounts ==
    {<<p, StaticHandler(Str_staticRoot, d)>> :
         p \in {Str_root, Str_build}, d \in {Str_indexHtml, Tail(Str_indexHtml)}}

StaticUrls ==
    {Str_root, Str_3js, Str_2unknown, Str_sub,
     Str_build, Str_build \o Str_root, Str_build \o Str_3js, Str_build \o Str_2unknown}

\* the catch-all route passes, or answers with a Response of its own
StaticUserOutcomes ==
    {Outcome("pass", FALSE, V_undefined, NoError, FALSE),
     Outcome("value", FALSE, V_response(<<"r">>), NoError, FALSE)}

InitStatic ==
    /\ routes = <<>>
    /\ templateCache = {}
    /\ fs \in StaticFsSet
    /\ reqs = [i \in {1} |-> IdleRequest]
    /\ prev = NoPrev

NextStatic ==
    \/ \E m \in StaticMounts : Use(m[1], m[2])
    \/ Use(Str_root, UserHandler)
    \/ \E i \in DOMAIN reqs, p \in StaticUrls : Arrive(i, "GET", p)
    \/ \E i \in DOMAIN reqs : InvokeStatic(i)
    \/ \E i \in DOMAIN reqs, o \in StaticUserOutcomes : InvokeUser(i, o)
    \/ \E i \in DOMAIN reqs : Settle(i)
    \/ \E i \in DOMAIN reqs : Exhaust(i)
    \/ \E i \in DOMAIN reqs : StreamEnd(i)
    \/ \E i \in DOMAIN reqs : StreamError(i)
    \/ \E p \in {Path_jsGz, Path_unknownGz} : RemoveFile(p)

SpecStatic == InitStatic /\ [][NextStatic]_vars

(***************************************************************************)
(* One static mount at a time: a server is set up with Server.static(D)    *)
(* under '/' or under '/build', as the static files tests do, and serves   *)
(* one request after the other; prev is the previous request.              *)
(***************************************************************************)
Mounts == {Str_root, Str_build}

\* the options of server.use(mount, Server.static(D))
MountOptions(mount) ==
    RouteOptions("", mount, TRUE, StaticHandler(Str_staticRoot, Str_indexHtml))

\* before(): server = new Server(); server.use(mount, Server.static(D))
Setup(mount) ==
    /\ \A i \in DOMAIN reqs : reqs[i].pc = "idle"
    /\ routes' = AddRoute(<<>>, MountOptions(mount))
    /\ templateCache' = {}
    /\ UNCHANGED <<fs, reqs, prev>>


\* the paths X below a mount, and the same paths below '/build'
MountPaths == {Str_root, Str_3js, Str_2unknown, Str_sub, Str_build \o Str_3js}

InitMount ==
    /\ \E mount \in Mounts :
           routes = AddRoute(<<>>, MountOptions(mount))
    /\ templateCache = {}
    /\ fs \in StaticFsSet
    /\ reqs = [i \in {1} |-> IdleRequest]
    /\ prev = NoPrev

NextMount ==
    \/ \E mount \in Mounts : Setup(mount)
    \/ \E i \in DOMAIN reqs, x \in MountPaths :
           \E p \in {x, Str_build \o x} : Arrive(i, "GET", p)
    \/ \E i \in DOMAIN reqs : InvokeStatic(i)
    \/ \E i \in DOMAIN reqs : Settle(i)
    \/ \E i \in DOMAIN reqs : Exhaust(i)
    \/ \E i \in DOMAIN reqs : StreamEnd(i)
    \/ \E i \in DOMAIN reqs : StreamError(i)
    \/ \E i \in DOMAIN reqs : Finish(i)
    \/ \E p \in {Path_jsGz, Path_unknownGz} : RemoveFile(p)

SpecMount == InitMount /\ [][NextMount]_vars

(***************************************************************************)
(* Properties of the static file middleware.                               *)
(***************************************************************************)
\* the bytes the middleware found at the candidate it chose
SeenData(r) == IF r.target.gzipped THEN r.seenGz.data ELSE r.seenPlain.data

\* C4: when the static middleware is invoked for file path F: if F.gz is a
\* regular file it is the target, with Content-Encoding gzip and the size of
\* F.gz as Content-Length; otherwise, if F is a regular file, F is the target,
\* with the size of F and no Content-Encoding; a candidate that is a directory
\* is skipped; and what is streamed is the target's bytes.
C4_CandidateChoice ==
    \A i \in DOMAIN reqs :
        LET r == reqs[i]
        IN  r.filePath # <<>> =>
                /\ r.seenGz.kind = "file" =>
                       r.target = [found |-> TRUE, path |-> r.filePath \o Str_gz,
                                   gzipped |-> TRUE, size |-> Len(r.seenGz.data)]
                /\ (r.seenGz.kind # "file" /\ r.seenPlain.kind = "file") =>
                       r.target = [found |-> TRUE, path |-> r.filePath,
                                   gzipped |-> FALSE, size |-> Len(r.seenPlain.data)]
                /\ (r.pc = "streaming" \/ r.res.writer = "static") =>
                       /\ r.target.found
                       /\ r.res.contentEncoding = (IF r.target.gzipped THEN "gzip" ELSE "")
                       /\ r.res.contentLength = NatToString(r.target.size)
                       /\ r.res.statusCode = 200
                /\ r.res.writer = "static" =>
                       /\ r.res.source = r.target.path
                       /\ r.res.body = SeenData(r)
                       /\ Len(r.res.body) = r.target.size

\* the previous request was answered from F.gz; F.gz was removed; the same
\* request is now answered from F, without Content-Encoding
C4_Witness ==
    \E i \in DOMAIN reqs :
        /\ prev.res.writer = "static"
        /\ prev.target.gzipped
        /\ prev.res.contentEncoding = "gzip"
        /\ reqs[i].pathname = prev.pathname
        /\ reqs[i].mount = prev.mount
        /\ reqs[i].res.writer = "static"
        /\ reqs[i].res.source = reqs[i].filePath
        /\ reqs[i].res.contentEncoding = ""
        /\ reqs[i].res.body = Bytes_plain

\* s ends with suffix
HasSuffix(s, suffix) ==
    /\ Len(suffix) <= Len(s)
    /\ SubSeq(s, Len(s) - Len(suffix) + 1, Len(s)) = suffix

\* the content type expected for a path the handler was asked for
ExpectedContentType(path) ==
    IF HasSuffix(path, Str_html) THEN "text/html"
    ELSE IF HasSuffix(path, Str_js) THEN "application/javascript"
    ELSE "application/octet-stream"

\* the path requested of the static middleware, the default document for "/"
RequestedOf(r) == IF r.path = <<"/">> THEN Str_indexHtml ELSE r.path

\* C5: whenever the static middleware serves a file, gzip variant or plain,
\* Content-Type is the MIME type of the extension of the path that was
\* requested, and application/octet-stream when the mapping has no such key.
C5_ContentType ==
    \A i \in DOMAIN reqs :
        (reqs[i].pc = "streaming" \/ reqs[i].res.writer = "static") =>
            reqs[i].res.contentType = ExpectedContentType(RequestedOf(reqs[i]))

\* 3.js was served from 3.js.gz as application/javascript
C5_Witness ==
    \E i \in DOMAIN reqs :
        /\ reqs[i].res.writer = "static"
        /\ reqs[i].res.source = Path_jsGz
        /\ reqs[i].res.contentEncoding = "gzip"
        /\ reqs[i].res.contentType = "application/javascript"

\* 2.unknown was served, from its gzip variant, as application/octet-stream
C5_WitnessUnknown ==
    \E i \in DOMAIN reqs :
        /\ reqs[i].res.writer = "static"
        /\ reqs[i].res.source = Path_unknownGz
        /\ reqs[i].res.contentType = "application/octet-stream"

\* no route strictly between positions a and b of the table matches the request
NoneBetween(r, a, b) ==
    \A j \in (a + 1)..(b - 1) : ~RouteMatches(routes[j], r.method, r.pathname)

\* C6: when neither F.gz nor F is a regular file, the static middleware leaves
\* the response alone and its outcome is the sentinel; after a static
\* middleware passed, the next route invoked is the first later route that
\* matches, and when there is none the request ends with 404.
C6_StaticDecline ==
    \A i \in DOMAIN reqs :
        LET r == reqs[i]
            n == Len(reqs[i].invoked)
        IN  /\ (/\ n > 0
                /\ routes[r.invoked[n]].middleware.type = "static"
                /\ r.seenGz.kind # "file"
                /\ r.seenPlain.kind # "file") =>
                    /\ r.outcomes[n] = "pass"
                    /\ ~r.target.found
                    /\ r.res.contentLength = <<>> /\ r.res.contentEncoding = ""
                    /\ r.res.writer # "static"
                    /\ \/ r.pc = "await" /\ r.pending = Declined
                       \/ r.pc = "next"
                       \/ r.pc = "done" /\ r.exhausted
            /\ \A k \in 1..n :
                   (routes[r.invoked[k]].middleware.type = "static" /\ r.outcomes[k] = "pass") =>
                       /\ k < n => /\ r.invoked[k] < r.invoked[k + 1]
                                   /\ NoneBetween(r, r.invoked[k], r.invoked[k + 1])
                       /\ (k = n /\ r.exhausted) =>
                              /\ NoneBetween(r, r.invoked[k], r.index)
                              /\ r.res.statusCode = 404
                              /\ r.res.body = Str_PageNotFound

\* /sub is a directory: the static middleware passed and the catch-all route
\* that follows it answered
C6_Witness ==
    \E i \in DOMAIN reqs :
        /\ reqs[i].invoked = <<1, 2>>
        /\ routes[1].middleware.type = "static"
        /\ routes[2].middleware.type = "user"
        /\ reqs[i].outcomes[1] = "pass"
        /\ reqs[i].seenPlain.kind = "dir"
        /\ reqs[i].res.writer = "applyTo"

\* nothing follows the static middleware that passed: 404
C6_WitnessNotFound ==
    \E i \in DOMAIN reqs :
        /\ reqs[i].invoked = <<1>>
        /\ routes[1].middleware.type = "static"
        /\ reqs[i].outcomes = <<"pass">>
        /\ reqs[i].exhausted
        /\ reqs[i].res.statusCode = 404

\* a was answered under the mount '/build' and b under the mount '/', for the
\* same path below the mount
MountPair(a, b) ==
    /\ a.mount = Str_build
    /\ b.mount = Str_root
    /\ a.pathname = Str_build \o b.pathname
    /\ a.pc = "done"
    /\ b.pc = "done"

\* both requests found the two candidates in the same condition, and no stream
\* lost its file under way
SameFiles(a, b) ==
    /\ a.seenGz = b.seenGz
    /\ a.seenPlain = b.seenPlain
    /\ a.res.statusCode # 500
    /\ b.res.statusCode # 500

MountEquivalent(a, b) ==
    MountPair(a, b) =>
        /\ a.path = b.pathname
        /\ a.filePath = b.filePath
        /\ b.pathname # <<"/">> => a.filePath = Str_staticRoot \o b.pathname
        /\ SameFiles(a, b) => (a.target = b.target /\ a.res = b.res)

\* C7: under use('/build', Server.static(D)) a request for /build/X is resolved
\* against D/X, the handler seeing the path without the mount prefix, and its
\* response is the response to /X under use('/', Server.static(D)).
C7_MountPrefix ==
    \A i \in DOMAIN reqs :
        /\ MountEquivalent(prev, Summary(reqs[i]))
        /\ MountEquivalent(Summary(reqs[i]), prev)

\* /build/3.js was served from 3.js.gz under '/build', then /3.js under '/'
C7_Witness ==
    \E i \in DOMAIN reqs :
        /\ MountPair(prev, Summary(reqs[i]))
        /\ prev.pathname = Str_build \o Str_3js
        /\ prev.res.writer = "static"
        /\ prev.target.gzipped
        /\ reqs[i].res = prev.res

\* C8: a request that addresses the root of a static mount (the mount path, with
\* or without its trailing slash) is answered with the default document.
C8_DefaultDocument ==
    \A i \in DOMAIN reqs :
        LET r == reqs[i]
            n == Len(reqs[i].invoked)
        IN  (/\ n > 0
             /\ routes[r.invoked[n]].middleware.type = "static"
             /\ r.pathname \in {routes[r.invoked[n]].path,
                                routes[r.invoked[n]].pathWithEndingSlash}) =>
                /\ r.filePath = Path_indexHtml
                /\ r.target.found
                /\ r.outcomes[n] = "value"

\* C8 without the mount path that has no trailing slash
C8_TrailingSlashOnly ==
    \A i \in DOMAIN reqs :
        LET r == reqs[i]
            n == Len(reqs[i].invoked)
        IN  (/\ n > 0
             /\ routes[r.invoked[n]].middleware.type = "static"
             /\ r.pathname = routes[r.invoked[n]].pathWithEndingSlash) =>
                /\ r.filePath = Path_indexHtml
                /\ r.target.found
                /\ r.outcomes[n] = "value"

(***************************************************************************)
(* Views: get('/widget') and get('/') whose handlers return the data the    *)
(* views views/widget.html and views/index.html are rendered with, or      *)
(* fail; one request after the other, and a view file that can be          *)
(* rewritten between requests.                                             *)
(***************************************************************************)
Path_widget == ViewPath(Str_widget)
Path_index == ViewPath(ViewName(Str_root))

\* "Hello {user.name}!"
Tpl_hello == Str_Hello \o <<"{">> \o Str_user \o <<".">> \o Str_name \o <<"}", "!">>

Val_ann == V_obj(<< <<Str_user, V_obj(<< <<Str_name, V_str(Str_Ann)>> >>)>> >>)
Val_nullUser == V_obj(<< <<Str_user, V_null>> >>)
Val_nullName == V_obj(<< <<Str_user, V_obj(<< <<Str_name, V_null>> >>)>> >>)

\* the data a handler returns: {user: {name: 'Ann'}}, {}, {user: null},
\* {user: 'Ann'}, {user: {name: null}}, and undefined, the absent data value
RenderData ==
    {Val_ann, V_obj(<<>>), Val_nullUser, V_obj(<< <<Str_user, V_str(Str_Ann)>> >>),
     Val_nullName, V_undefined}

\* the contents of views/widget.html: the greeting, or nothing at all
RenderTemplates == {Tpl_hello, <<>>}

InitRender ==
    /\ routes = <<>>
    /\ templateCache = {}
    /\ \E widget \in {NoFile} \cup {File(t) : t \in RenderTemplates},
          index \in {NoFile, File(Tpl_hello)} :
           fs = (Path_widget :> widget) @@ (Path_index :> index)
    /\ reqs = [i \in {1} |-> IdleRequest]
    /\ prev = NoPrev

NextRender ==
    \/ \E p \in {Str_widget, Str_root} : Get(p, UserHandler)
    \/ \E i \in DOMAIN reqs, p \in {Str_widget, Str_root, Str_other} : Arrive(i, "GET", p)
    \/ \E i \in DOMAIN reqs, v \in RenderData :
           InvokeUser(i, Outcome("value", FALSE, v, NoError, FALSE))
    \/ \E i \in DOMAIN reqs, a \in BOOLEAN, e \in CoreErrors :
           InvokeUser(i, Outcome("throw", a, V_undefined, e, FALSE))
    \/ \E i \in DOMAIN reqs : Settle(i)
    \/ \E i \in DOMAIN reqs : Exhaust(i)
    \/ \E i \in DOMAIN reqs : Finish(i)
    \/ \E t \in RenderTemplates : WriteFile(Path_widget, t)
    \/ RemoveFile(Path_widget)

SpecRender == InitRender /\ [][NextRender]_vars

(***************************************************************************)
(* Properties of Server._render.                                           *)
(***************************************************************************)
\* the request of slot i had its handler's value rendered with the greeting
RenderedHello(r) ==
    /\ r.resolved
    /\ CacheHas(templateCache, ViewName(r.pathname))
    /\ CacheGet(templateCache, ViewName(r.pathname)) = V_str(Tpl_hello)

\* C9: rendering never raises an error, whatever the data holds: a request
\* whose handler returned a value always gets its response.
C9_RenderNeverRaises ==
    \A i \in DOMAIN reqs :
        /\ reqs[i].pc # "escaped"
        /\ reqs[i].resolved => (reqs[i].res.ended /\ reqs[i].res.ends = 1)

\* C9 for data that holds no null before the last segment of the path: the
\* token is replaced by the value the path leads to, and left as it is when a
\* segment is absent.
C9_TokensReplaced ==
    \A i \in DOMAIN reqs :
        (RenderedHello(reqs[i]) /\ reqs[i].result # Val_nullUser) =>
            /\ reqs[i].pc = "done"
            /\ reqs[i].res.contentType = "text/html"
            /\ reqs[i].res.body =
                   (CASE reqs[i].result = Val_ann -> Str_Hello \o Str_Ann \o <<"!">>
                      [] reqs[i].result = Val_nullName -> Str_Hello \o Str_null \o <<"!">>
                      [] OTHER -> Tpl_hello)

\* C10: two successive requests that render the same view with the same data
\* get the same content type and the same body, and the second one does not
\* read the filesystem.
C10_CacheIdempotence ==
    \A i \in DOMAIN reqs :
        (/\ prev.resolved
         /\ reqs[i].resolved
         /\ reqs[i].pathname = prev.pathname
         /\ reqs[i].result = prev.result) =>
            /\ reqs[i].res.contentType = prev.res.contentType
            /\ reqs[i].res.body = prev.res.body
            /\ reqs[i].pc = prev.pc
            /\ ~reqs[i].probed

\* C10 for the views whose cached template is not the empty string
C10_NonEmptyViews ==
    \A i \in DOMAIN reqs :
        (/\ prev.resolved
         /\ reqs[i].resolved
         /\ reqs[i].pathname = prev.pathname
         /\ reqs[i].result = prev.result
         /\ CacheGet(templateCache, ViewName(reqs[i].pathname)) # V_str(<<>>)) =>
            /\ reqs[i].res.contentType = prev.res.contentType
            /\ reqs[i].res.body = prev.res.body
            /\ reqs[i].pc = prev.pc
            /\ ~reqs[i].probed

(***************************************************************************)
(* Properties of the result serializer and of the error handler.           *)
(***************************************************************************)
\* the cache entry of the view a request's value was rendered with
ViewEntry(r) == CacheGet(templateCache, ViewName(r.pathname))

\* the response is ended, once, as content of the given type
Answered(r, type, body) ==
    /\ r.pc = "done"
    /\ r.res.ended /\ r.res.ends = 1
    /\ r.res.statusCode = 200
    /\ r.res.contentType = type
    /\ r.res.body = body

\* the JSON fallback: application/json and the serialized value, and neither
\* body nor content type for a value that serializes to nothing
JsonAnswered(r) ==
    IF r.result.k = "undefined" THEN Answered(r, "", <<>>)
    ELSE Answered(r, "application/json", JsonText(r.result))

\* C11: a terminal value that is not a Response is answered with the JSON
\* fallback when no template exists for the request path, and with the
\* rendered template as text/html when one exists.
C11_JsonFallback ==
    \A i \in DOMAIN reqs :
        (reqs[i].resolved /\ reqs[i].result.k # "response") =>
            IF ViewEntry(reqs[i]).k = "undefined" THEN JsonAnswered(reqs[i])
            ELSE /\ reqs[i].pc = "done"
                 /\ reqs[i].res.ended /\ reqs[i].res.ends = 1
                 /\ reqs[i].res.contentType = "text/html"

\* C11 where no template exists: the JSON fallback alone
C11_WithoutTemplate ==
    \A i \in DOMAIN reqs :
        (/\ reqs[i].resolved
         /\ reqs[i].result.k # "response"
         /\ ViewEntry(reqs[i]).k = "undefined") => JsonAnswered(reqs[i])

\* the status an error is answered with
ExpectedStatus(error) ==
    CASE error.kind = "NotFound" -> 404
      [] error.kind = "Expected" -> error.statusCode
      [] OTHER -> 500

\* the file of the error view of an error
ErrorViewFile(error) == FsEntry(fs, ViewPath(ErrorView(ExpectedStatus(error))))

\* the error handler ran for the request with the headers not yet sent
ErrorAnswered(r) == r.errors > 0 /\ r.res.writer = "error"

\* status, content type and ending of an error response, and the fixed text
\* of an untyped failure
ErrorEnvelope(r) ==
    /\ r.pc = "done"
    /\ r.res.statusCode = ExpectedStatus(r.error)
    /\ r.res.contentType = "text/html"
    /\ r.res.ended /\ r.res.ends = 1
    /\ r.error.kind = "Untyped" => r.res.body = Str_ServerError

C12_WitnessUntyped ==
    \E i \in DOMAIN reqs :
        /\ ErrorAnswered(reqs[i])
        /\ reqs[i].error.kind = "Untyped"
        /\ reqs[i].res.statusCode = 500
        /\ reqs[i].res.body = Str_ServerError


(***************************************************************************)
(* Properties of failure handling.                                         *)
(***************************************************************************)
\* the outcome of the handler the request invoked last was a failure that has
\* been delivered (thrown, or its rejection callback has run)
FailureDelivered(r) ==
    /\ r.outcomes # <<>>
    /\ r.outcomes[Len(r.outcomes)] = "throw"
    /\ r.pc # "await"

\* a delivered failure led to exactly one call of the error handler with that
\* failure, and no later route was tried
Funnelled(r) ==
    /\ r.errors = 1
    /\ r.error \in CoreErrors
    /\ ~r.exhausted
    /\ r.index = r.invoked[Len(r.invoked)]
    /\ ~r.resolved

\* C13 as stated: a synchronous throw and an asynchronous rejection both lead
\* to exactly one call of the error handler with that failure, no later route
\* is tried, and no failure raised while dispatching (in the handler or while
\* serializing its terminal value) escapes the dispatcher.
C13_FailureFunnelling ==
    \A i \in DOMAIN reqs :
        /\ FailureDelivered(reqs[i]) => Funnelled(reqs[i])
        /\ reqs[i].errors <= 1
        /\ reqs[i].pc # "escaped"

\* the part of C13 about the handler's own failures
C13_HandlerFailures ==
    \A i \in DOMAIN reqs :
        /\ FailureDelivered(reqs[i]) => Funnelled(reqs[i]) /\ reqs[i].pc = "done"
        /\ reqs[i].errors <= 1
        /\ reqs[i].pc = "escaped" => reqs[i].resolved /\ reqs[i].errors = 0


(***************************************************************************)
(* Properties of the response headers.                                     *)
(***************************************************************************)
\* the body sent is the bytes of the file the static middleware chose
StaticBody(r) ==
    /\ r.res.writer = "static"
    /\ r.res.source = r.target.path
    /\ r.res.body = SeenData(r)

\* the headers of a sent response that are there come with a static body: gzip
\* with the bytes of a '.gz' file, a length with a file of that size
HeadersFromBody(r) ==
    /\ r.res.contentEncoding = "gzip" =>
           StaticBody(r) /\ HasSuffix(r.res.source, Str_gz)
    /\ r.res.contentLength # <<>> =>
           StaticBody(r) /\ r.res.contentLength = NatToString(Len(r.res.body))

\* C14 as stated: a response carries 'Content-Encoding: gzip' only if its body
\* is the bytes of a '.gz' static file, and a Content-Length only if its body is
\* the bytes of a static file of that size; also when the error handler or the
\* result serializer wrote it after the static middleware ran.
C14_HeaderProvenance ==
    \A i \in DOMAIN reqs :
        reqs[i].res.headerSent => HeadersFromBody(reqs[i])

\* the part of C14 that holds: the two headers are on responses the static
\* middleware prepared, and any such response not written by the error handler
\* after a failed stream has the static body they describe
C14_ExceptFailedStream ==
    \A i \in DOMAIN reqs :
        /\ (reqs[i].res.contentEncoding # "" \/ reqs[i].res.contentLength # <<>>) =>
               reqs[i].target.found
        /\ (reqs[i].res.headerSent /\ ~HeadersFromBody(reqs[i])) =>
               /\ reqs[i].res.writer = "error"
               /\ reqs[i].error = StreamFailed.err
               /\ reqs[i].target.found


\* the response as a handler that wrote and ended it itself left it
HandlerResponse == HandlerWrite(NewResponse, Outcome("value", FALSE, V_undefined, NoError, TRUE))

\* C15: once the headers of a response have been sent, no step of the
\* dispatcher (result serializer or error handler) sets a header, sets the
\* status code, writes a body or ends that response: the response stays as it
\* is for as long as the request lasts, and it is never ended twice.
C15_DoubleWriteGuard ==
    [][\A i \in DOMAIN reqs :
           (reqs[i].res.headerSent /\ reqs'[i].pc # "idle") =>
               /\ reqs'[i].res = reqs[i].res
               /\ reqs'[i].res.ends <= 1]_vars

\* a handler wrote the response and then failed: the error handler ran and
\* the response is still the handler's
C15_Witness ==
    \E i \in DOMAIN reqs :
        /\ reqs[i].errors = 1
        /\ reqs[i].pc = "done"
        /\ reqs[i].res = HandlerResponse

\* a handler wrote the response and then completed with a value
C15_WitnessResult ==
    \E i \in DOMAIN reqs :
        /\ reqs[i].resolved
        /\ reqs[i].result = Val_info
        /\ reqs[i].pc = "done"
        /\ reqs[i].res = HandlerResponse


\* C16 as stated: every error that reaches the error handler is logged, an
\* error that arrives after the headers were sent included.
C16_EveryErrorLogged ==
    \A i \in DOMAIN reqs : reqs[i].logs = reqs[i].errors

\* the part of C16 that holds: an error the error handler answers is logged
\* once, and an error that arrives after the headers were sent changes
\* nothing of the response
C16_LoggedWhenAnswered ==
    \A i \in DOMAIN reqs :
        /\ reqs[i].logs <= reqs[i].errors
        /\ ErrorAnswered(reqs[i]) => reqs[i].logs = 1 /\ reqs[i].errors = 1
        /\ reqs[i].logs < reqs[i].errors =>
               reqs[i].logs = 0 /\ reqs[i].res = HandlerResponse


(***************************************************************************)
(* Properties of the life of a request.                                    *)
(***************************************************************************)
\* the matching loop made at most one pass over the route table
OnePass(r) ==
    /\ Len(r.invoked) <= Len(routes)
    /\ r.index <= Len(routes) + 1
    /\ \A k \in 1..(Len(r.invoked) - 1) : r.invoked[k] < r.invoked[k + 1]

\* the request is DONE: its response is ended, once, and nothing is pending
Completed(r) ==
    /\ r.pc = "done"
    /\ r.res.ended /\ r.res.ends = 1
    /\ r.pending = NoOutcome

\* C17 as stated, for handlers that settle and do not write: a request that is
\* no longer matching, invoking or waiting for a handler has reached DONE with
\* its response ended exactly once, after at most one pass over the route
\* table.
C17_RequestCompletes ==
    \A i \in DOMAIN reqs :
        /\ OnePass(reqs[i])
        /\ reqs[i].pc \notin {"idle", "next", "await"} => Completed(reqs[i])

\* the part of C17 that holds: one pass, and a request that has stopped is
\* either DONE with its response ended once or was left, never answered, by a
\* failure of the result serializer
C17_OnePassAndDone ==
    \A i \in DOMAIN reqs :
        /\ OnePass(reqs[i])
        /\ reqs[i].pc \notin {"idle", "next", "await", "streaming"} =>
               \/ Completed(reqs[i])
               \/ /\ reqs[i].pc = "escaped"
                  /\ reqs[i].resolved
                  /\ reqs[i].res = NewResponse


(***************************************************************************)
(* Several requests in flight: a server with use('/', h) and               *)
(* get('/widget', h), two requests whose handlers settle in any order,     *)
(* and a view file that is written and removed while the server runs.      *)
(***************************************************************************)
MultiOutcomes ==
    {Outcome("pass", a, V_undefined, NoError, FALSE) : a \in BOOLEAN}
    \cup {Outcome("value", TRUE, Val_ann, NoError, FALSE),
          Outcome("throw", TRUE, V_undefined, UntypedError(<<"b", "o", "o", "m">>), FALSE)}

InitMulti ==
    /\ routes = AddRoute(AddRoute(<<>>, RouteOptions("", Str_root, TRUE, UserHandler)),
                         RouteOptions("GET", Str_widget, FALSE, UserHandler))
    /\ templateCache = {}
    /\ fs \in [{Path_widget} -> {NoFile, File(Tpl_hello), File(<<>>)}]
    /\ reqs = [i \in {1, 2} |-> IdleRequest]
    /\ prev = NoPrev

NextMulti ==
    \/ \E i \in DOMAIN reqs, p \in {Str_widget, Str_other} : Arrive(i, "GET", p)
    \/ \E i \in DOMAIN reqs, o \in MultiOutcomes : InvokeUser(i, o)
    \/ \E i \in DOMAIN reqs : Settle(i)
    \/ \E i \in DOMAIN reqs : Exhaust(i)
    \/ \E t \in RenderTemplates : WriteFile(Path_widget, t)
    \/ RemoveFile(Path_widget)

SpecMulti == InitMulti /\ [][NextMulti]_vars

(***************************************************************************)
(* Properties of requests in flight together.                              *)
(***************************************************************************)
\* the request has stopped
Stopped(r) == r.pc \in {"done", "escaped"}

\* two requests with the same method and path whose handlers had the same
\* outcomes
SameRequest(r, q) ==
    /\ r.method = q.method /\ r.pathname = q.pathname
    /\ r.outcomes = q.outcomes
    /\ r.result = q.result /\ r.resolved = q.resolved
    /\ r.error = q.error

\* C18 as stated: the handlers invoked for a request and its final response
\* depend only on its method, its path and its own handlers' outcomes, not on
\* the progress of other requests: two requests that agree on these invoke
\* the same handlers and get the same response.
C18_RequestIndependence ==
    \A i \in DOMAIN reqs, j \in DOMAIN reqs :
        (Stopped(reqs[i]) /\ Stopped(reqs[j]) /\ SameRequest(reqs[i], reqs[j])) =>
            /\ reqs[i].invoked = reqs[j].invoked
            /\ reqs[i].res = reqs[j].res

\* the part of C18 that holds: the handlers invoked never depend on another
\* request, and the responses differ only when the view of the path is cached
\* as the empty string
C18_ExceptEmptyView ==
    \A i \in DOMAIN reqs, j \in DOMAIN reqs :
        (Stopped(reqs[i]) /\ Stopped(reqs[j]) /\ SameRequest(reqs[i], reqs[j])) =>
            /\ reqs[i].invoked = reqs[j].invoked
            /\ reqs[i].index = reqs[j].index
            /\ reqs[i].res # reqs[j].res =>
                   /\ reqs[i].resolved
                   /\ CacheHas(templateCache, ViewName(reqs[i].pathname))
                   /\ ViewEntry(reqs[i]) = V_str(<<>>)

\* a request is answered while the handler of the other is still suspended
C18_Overtaken ==
    \E i \in DOMAIN reqs, j \in DOMAIN reqs :
        /\ reqs[i].pc = "await" /\ reqs[i].invoked = <<1>>
        /\ reqs[j].pc = "done" /\ reqs[j].invoked = <<1, 2>>

(***************************************************************************)
(* Properties of the template cache.                                       *)
(***************************************************************************)
\* what the first render of a view stores: the whole file, or the absent marker
FirstEntry(fsys, view) ==
    IF FsStat(fsys, ViewPath(view)).kind = "file"
        THEN V_str(FsStat(fsys, ViewPath(view)).data)
    ELSE V_undefined

\* C19: under any interleaving of requests, an entry of the template cache is
\* written only on the first render of its view, holds the complete content of
\* the file at that moment or the absent marker, and never changes afterwards;
\* the filesystem is probed only by such a first render, so a view that was
\* missing then is not probed again and is treated as absent by every later
\* render.
C19_CacheStickiness ==
    [][/\ \A e \in templateCache : e \in templateCache'
       /\ \A e \in templateCache' \ templateCache :
              /\ ~CacheHas(templateCache, e.view)
              /\ e.template = FirstEntry(fs, e.view)
       /\ \A i \in DOMAIN reqs :
              reqs'[i].probed /\ ~reqs[i].probed => templateCache' # templateCache
       /\ \A i \in DOMAIN reqs :
              (/\ reqs'[i].resolved /\ ~reqs[i].resolved
               /\ CacheHas(templateCache, ViewName(reqs[i].pathname))
               /\ ViewEntry(reqs[i]) = V_undefined) =>
                  /\ ~reqs'[i].probed
                  /\ reqs'[i].res.contentType = "application/json"]_vars

\* the view file was rewritten after it was cached: a later request is still
\* answered from the cached template, without a look at the filesystem
C19_Witness ==
    \E i \in DOMAIN reqs :
        /\ reqs[i].resolved /\ ~reqs[i].probed
        /\ reqs[i].pathname = Str_widget
        /\ CacheHas(templateCache, Str_widget)
        /\ ViewEntry(reqs[i]) = V_str(Tpl_hello)
        /\ fs[Path_widget] # File(Tpl_hello)
        /\ reqs[i].res.contentType = "text/html"
        /\ reqs[i].res.body = Substitute(Tpl_hello, Val_ann).text

\* the view was missing at its first render and written since: a later request
\* is answered as if it were absent
C19_WitnessMissing ==
    \E i \in DOMAIN reqs :
        /\ reqs[i].resolved /\ ~reqs[i].probed
        /\ reqs[i].pathname = Str_widget
        /\ CacheHas(templateCache, Str_widget)
        /\ ViewEntry(reqs[i]) = V_undefined
        /\ fs[Path_widget] = File(Tpl_hello)
        /\ reqs[i].res.contentType = "application/json"


(***************************************************************************)
(* The route table: routes registered with any of the patterns '', '/',    *)
(* '/foo' and '/foo/' (<<>> is the empty string), and requests dispatched  *)
(* over them.                                                              *)
(***************************************************************************)
RoutePatterns == {<<>>, Str_root, Str_foo, Str_fooSlash}

NextRoutes ==
    \/ \E p \in RoutePatterns : Use(p, UserHandler)
    \/ \E p \in RoutePatterns : Get(p, UserHandler)
    \/ \E p \in RoutePatterns : Post(p, UserHandler)
    \/ \E i \in DOMAIN reqs, p \in {Str_root, Str_foo, Str_fooBar} : Arrive(i, "GET", p)
    \/ \E i \in DOMAIN reqs, a \in BOOLEAN :
           InvokeUser(i, Outcome("pass", a, V_undefined, NoError, FALSE))
    \/ \E i \in DOMAIN reqs : InvokeUser(i, Outcome("value", FALSE, Val_info, NoError, FALSE))
    \/ \E i \in DOMAIN reqs : Settle(i)
    \/ \E i \in DOMAIN reqs : Exhaust(i)

SpecRoutes == Init /\ [][NextRoutes]_vars

(***************************************************************************)
(* Properties of the route table.                                          *)
(***************************************************************************)
\* the exact path and the prefix path of a stored route, from its pattern
Normalized(route) ==
    IF route.pattern = <<"/">>
        THEN route.path = <<"/">> /\ route.pathWithEndingSlash = <<"/">>
    ELSE IF route.pattern # <<>> /\ route.pattern[Len(route.pattern)] = "/"
        THEN /\ route.path \o <<"/">> = route.pattern
             /\ route.pathWithEndingSlash = route.pattern
    ELSE /\ route.path = route.pattern
         /\ route.pathWithEndingSlash = route.pattern \o <<"/">>

\* C20 as stated: every stored route is normalized from its pattern, and every
\* stored route has a non-empty exact path, whatever the pattern.
C20_ExactPathNeverEmpty ==
    \A j \in 1..Len(routes) :
        /\ Normalized(routes[j])
        /\ routes[j].path # <<>>

\* C20: after any sequence of use/get/post calls, every stored route has the
\* exact path and the prefix path its pattern gives ('/' for both when the
\* pattern is '/'; the pattern without its last '/' and the pattern when it ends
\* with '/'; otherwise the pattern and the pattern followed by '/'), and its
\* exact path is empty only if the pattern was the empty string; a call appends
\* one route and leaves the stored ones as they are, and a step of a request
\* never changes the route table.
C20_RouteNormalization ==
    [][/\ \A j \in 1..Len(routes') :
              /\ Normalized(routes'[j])
              /\ routes'[j].path = <<>> <=> routes'[j].pattern = <<>>
       /\ routes' # routes =>
              /\ Len(routes') = Len(routes) + 1
              /\ SubSeq(routes', 1, Len(routes)) = routes
              /\ reqs' = reqs
       /\ reqs' # reqs => routes' = routes]_vars

\* a table holding a route registered with '/foo/' and one registered with the
\* empty pattern, unchanged after a request was dispatched over it
C20_Witness ==
    /\ Len(routes) = 2
    /\ routes[1].pattern = Str_fooSlash /\ routes[1].path = Str_foo
    /\ routes[2].pattern = <<>> /\ routes[2].path = <<>>
    /\ routes[2].pathWithEndingSlash = <<"/">>
    /\ \E i \in DOMAIN reqs : reqs[i].pc = "done" /\ reqs[i].invoked # <<>>


(***************************************************************************)
(* Properties of the root mount.                                           *)
(***************************************************************************)
\* the route was registered with use('/', h)
RootMount(route) == route.pattern = <<"/">> /\ route.extendable /\ route.method = ""

\* C21: a route registered with use('/', h) is a candidate for every request,
\* whatever its method and its path (a path begins with '/'): the handler of
\* every such route the request's next() has looked at was invoked.
C21_RootMount ==
    \A j \in 1..Len(routes) :
        RootMount(routes[j]) =>
            /\ \A m \in Methods, p \in CorePaths : RouteMatches(routes[j], m, p)
            /\ \A i \in DOMAIN reqs :
                   Considered(reqs[i], j) =>
                       \E k \in 1..Len(reqs[i].invoked) : reqs[i].invoked[k] = j

\* a PUT request for /foo/bar went past get('/foo') and reached use('/')
C21_Witness ==
    \E i \in DOMAIN reqs :
        /\ Len(routes) = 2
        /\ routes[1].method = "GET" /\ routes[1].pattern = Str_foo
        /\ RootMount(routes[2])
        /\ reqs[i].method = "PUT"
        /\ reqs[i].pathname = Str_fooBar
        /\ reqs[i].invoked = <<2>>


(***************************************************************************)
(* Direct and promised outcomes side by side: a server with two routes,    *)
(* and two requests, the first served by handlers that return or throw     *)
(* directly, the second by handlers that return a promise.                 *)
(***************************************************************************)
InitSync ==
    /\ \E a \in {RouteOptions("", Str_root, TRUE, UserHandler),
                 RouteOptions("", Str_foo, TRUE, UserHandler),
                 RouteOptions("GET", Str_foo, FALSE, UserHandler)} :
       \E b \in {RouteOptions("", Str_root, TRUE, UserHandler),
                 RouteOptions("", Str_foo, TRUE, UserHandler),
                 RouteOptions("GET", Str_foo, FALSE, UserHandler)} :
           routes = AddRoute(AddRoute(<<>>, a), b)
    /\ templateCache = {}
    /\ fs \in [{Path_view404} -> {NoFile, File(Tpl_404), File(<<>>)}]
    /\ reqs = [i \in {1, 2} |-> IdleRequest]
    /\ prev = NoPrev

NextSync ==
    \/ \E i \in DOMAIN reqs, p \in {Str_foo, Str_fooBar} : Arrive(i, "GET", p)
    \/ \E o \in CoreOutcomes : InvokeUser(1, [o EXCEPT !.async = FALSE])
    \/ \E o \in CoreOutcomes : InvokeUser(2, [o EXCEPT !.async = TRUE])
    \/ \E i \in DOMAIN reqs : Settle(i)
    \/ \E i \in DOMAIN reqs : Exhaust(i)

SpecSync == InitSync /\ [][NextSync]_vars

(***************************************************************************)
(* Properties of direct and promised outcomes.                             *)
(***************************************************************************)
\* the handlers invoked for the two requests had the same outcomes: the same
\* kinds in the same order, the same value when the last one returned a value,
\* the same failure when it failed
SameOutcomes(r, q) ==
    /\ r.outcomes = q.outcomes
    /\ r.outcomes # <<>> =>
           CASE r.outcomes[Len(r.outcomes)] = "value" ->
                    r.resolved /\ q.resolved /\ r.result = q.result
             [] r.outcomes[Len(r.outcomes)] = "throw" ->
                    r.errors = 1 /\ q.errors = 1 /\ r.error = q.error
             [] OTHER -> TRUE

\* the request served by direct handlers and the one served by promising
\* handlers have stopped, and agree on method, path, the handlers' outcomes and
\* on whether a handler wrote the response itself
SamePair ==
    /\ Stopped(reqs[1]) /\ Stopped(reqs[2])
    /\ reqs[1].method = reqs[2].method /\ reqs[1].pathname = reqs[2].pathname
    /\ SameOutcomes(reqs[1], reqs[2])
    /\ (reqs[1].res.writer = "handler") = (reqs[2].res.writer = "handler")

\* C22: a handler that returns an outcome directly (the request, a value,
\* nothing) or throws, and a handler that returns a promise settled with the
\* same outcome or failure, lead to the same later handler invocations and to
\* the same final response: a request served by direct handlers and a request
\* served by promising handlers that agree on method, path and outcomes have
\* invoked the same handlers and have the same response.
C22_SyncAsyncEquivalent ==
    SamePair =>
        /\ reqs[1].invoked = reqs[2].invoked
        /\ reqs[1].index = reqs[2].index
        /\ reqs[1].res = reqs[2].res
        /\ reqs[1].pc = reqs[2].pc
        /\ reqs[1].error = reqs[2].error
        /\ reqs[1].exhausted = reqs[2].exhausted

\* both requests passed the first route and got the value of the second
C22_Witness ==
    /\ SamePair
    /\ reqs[1].invoked = <<1, 2>>
    /\ reqs[2].outcomes = <<"pass", "value">>
    /\ reqs[2].result = Val_info
    /\ reqs[2].res.contentType = "application/json"

\* both requests failed with the same ExpectedError, thrown and rejected
C22_WitnessThrow ==
    /\ SamePair
    /\ reqs[1].outcomes = <<"throw">>
    /\ reqs[2].error.kind = "Expected"
    /\ reqs[2].res.statusCode = 403


(***************************************************************************)
(* Properties of the path a handler sees.                                  *)
(***************************************************************************)
\* req.path is right for the route invoked last: the pathname without the
\* exact path in front for a prefix route other than the root, else the pathname
PathSeen(r, route) ==
    IF route.extendable /\ route.pattern # <<"/">>
        THEN PatternBase(route) \o r.path = r.pathname
    ELSE r.path = r.pathname

\* C23: at every handler invocation req.path is the request pathname with the
\* route's exact path removed from its front when the route is a prefix route
\* and not the root route, and the full pathname otherwise, also after an
\* earlier prefix route passed; and the views rendered are named after the
\* full pathname of the request (or are error views), never after req.path.
C23_HandlerPath ==
    /\ \A i \in DOMAIN reqs :
           reqs[i].invoked # <<>> =>
               PathSeen(reqs[i], routes[reqs[i].invoked[Len(reqs[i].invoked)]])
    /\ \A i \in DOMAIN reqs :
           (reqs[i].resolved /\ reqs[i].res.writer = "result") =>
               CacheHas(templateCache, ViewName(reqs[i].pathname))
    /\ \A e \in templateCache :
           \/ \E i \in DOMAIN reqs : e.view = ViewName(reqs[i].pathname)
           \/ \E status \in {403, 404} : e.view = ErrorView(status)

\* /foo/bar went through use('/foo'), which saw /bar and passed, to use('/'),
\* which saw /foo/bar
C23_Witness ==
    \E i \in DOMAIN reqs :
        /\ Len(routes) = 2
        /\ routes[1].extendable /\ routes[1].pattern = Str_foo
        /\ RootMount(routes[2])
        /\ reqs[i].pathname = Str_fooBar
        /\ reqs[i].invoked = <<1, 2>>
        /\ reqs[i].path = Str_fooBar

\* the handler of use('/foo/') saw /bar and returned a value, which was rendered
\* with the view /foo/bar
C23_WitnessView ==
    \E i \in DOMAIN reqs :
        /\ Len(routes) >= 1
        /\ routes[1].extendable /\ routes[1].pattern = Str_fooSlash
        /\ reqs[i].pathname = Str_fooBar
        /\ reqs[i].invoked = <<1>>
        /\ reqs[i].path = <<"/", "b", "a", "r">>
        /\ reqs[i].res.writer = "result"
        /\ CacheHas(templateCache, Str_fooBar)


(***************************************************************************)
(* Static files and the directories around the root: Server.static(D)      *)
(* mounted under '/' or under '/build', a file s.js beside D and possibly  *)
(* a file D.gz, and request paths with '..' segments.                      *)
(***************************************************************************)
Path_outside == <<"/", "s">> \o Str_js

InitEscape ==
    /\ \E mount \in Mounts : routes = AddRoute(<<>>, MountOptions(mount))
    /\ templateCache = {}
    /\ \E inside \in StaticFsSet, rootGz \in {NoFile, File(Bytes_gz)} :
           fs = inside @@ (Path_outside :> File(Bytes_plain))
                       @@ (Str_staticRoot \o Str_gz :> rootGz)
    /\ reqs = [i \in {1} |-> IdleRequest]
    /\ prev = NoPrev

NextEscape ==
    \/ \E i \in DOMAIN reqs, x \in {Str_3js, <<"/", ".", ".">> \o Path_outside, <<>>} :
           \E p \in {x, Str_build \o x} : p # <<>> /\ Arrive(i, "GET", p)
    \/ \E i \in DOMAIN reqs : InvokeStatic(i)
    \/ \E i \in DOMAIN reqs : StreamEnd(i)
    \/ \E i \in DOMAIN reqs : Settle(i)
    \/ \E i \in DOMAIN reqs : Exhaust(i)
    \/ \E i \in DOMAIN reqs : Finish(i)

SpecEscape == InitEscape /\ [][NextEscape]_vars

(***************************************************************************)
(* Properties of the static root.                                          *)
(***************************************************************************)
\* the path is the root directory or lies below it
InsideRoot(p) == p = Str_staticRoot \/ StartsWith(p, Str_staticRoot \o <<"/">>)

\* the request path has a '..' segment
HasDotDot(pathname) ==
    \E k \in 1..Len(Split(pathname, "/")) : Split(pathname, "/")[k] = <<".", ".">>

\* C24 as stated: for every request path, paths with '..' segments included,
\* both candidate paths the static middleware examines lie inside the root
\* directory, and no file outside the root is streamed.
C24_RootConfinement ==
    \A i \in DOMAIN reqs :
        reqs[i].filePath # <<>> =>
            /\ InsideRoot(reqs[i].filePath)
            /\ InsideRoot(reqs[i].filePath \o Str_gz)
            /\ reqs[i].res.source # <<>> => InsideRoot(reqs[i].res.source)

\* the part of C24 that holds: a candidate outside the root is examined only
\* for a request path with a '..' segment, or, for the '.gz' sibling of the
\* root itself, for a request to the mount point of a mount other than '/'
C24_WithoutDotDot ==
    \A i \in DOMAIN reqs :
        (reqs[i].filePath # <<>> /\ ~HasDotDot(reqs[i].pathname)) =>
            /\ InsideRoot(reqs[i].filePath)
            /\ \/ InsideRoot(reqs[i].filePath \o Str_gz)
               \/ reqs[i].path = <<>> /\ reqs[i].filePath = Str_staticRoot

\* the file beside the root was streamed to the client
C24_Streamed ==
    \E i \in DOMAIN reqs :
        /\ reqs[i].res.ended
        /\ reqs[i].res.source = Path_outside
        /\ reqs[i].res.body = Bytes_plain

====
